---- MODULE Spec2Model ----
(***************************************************************************)
(* Model of the two seminar notebooks of learning-deep-learning:           *)
(*   04_dense/seminar_photo2map.ipynb        (photo -> map, UNet)          *)
(*   05_generative/seminar_neural_style_transfer.ipynb  (style transfer)   *)
(*                                                                         *)
(* The notebooks are sequences of cells.  Each group of cells that a       *)
(* property is about is modelled as one "run" of the state machine; Init   *)
(* chooses the run and its inputs, the actions are the statements of the   *)
(* cells.  Tensors are finite sequences of integers; a real value v/d is   *)
(* kept as its numerator over the denominator named next to it.           *)
(***************************************************************************)
EXTENDS Integers, Sequences, FiniteSets, TLC

(***************************************************************************)
(* Bounds of the model.                                                    *)
(***************************************************************************)
MaxHalfW == 2      \* widest half of a side-by-side sample, in pixels
MaxH == 2          \* tallest sample, in pixels
MaxSeed == 2       \* number of different pixel contents per sample size
MaxInput == 30     \* inputs of Vgg16.forward are 0..MaxInput
MaxFileDim == 2    \* image files are up to MaxFileDim pixels wide and high
MaxB == 2          \* feature maps have up to MaxB samples,
MaxC == 2          \*   MaxC channels,
MaxHW == 2         \*   MaxHW rows and MaxHW columns
MaxFeatSeed == 2   \* number of different contents per feature-map shape
MaxSamples == 9    \* the train dataset has 1..MaxSamples samples,
LargeSamples == 201 \*   or LargeSamples samples (more than 50 batches)
PixelOne == 2      \* the pixel value 1.0, in the unit of pixel values
MaxGrad == 1       \* lr * gradient of a pixel is in -MaxGrad..MaxGrad units

(***************************************************************************)
(* Helpers.                                                                *)
(***************************************************************************)
Range(f) == {f[i] : i \in DOMAIN f}

RECURSIVE SumSeq(_)
SumSeq(s) == IF s = <<>> THEN 0 ELSE Head(s) + SumSeq(Tail(s))

(***************************************************************************)
(* 04_dense: transform and PhotoMapDataset                                 *)
(***************************************************************************)
PixMax == 255      \* ToTensor maps the byte p to p / 255
NumChannels == 3   \* "sample will be of shape (3, H, W)"

\* The files of the image folder.  A file is a side-by-side pair (photo |
\* map); what ImageFolder's loader followed by Resize and ToTensor gives
\* for it is an image of 3 channels, h rows and 2 * hw columns of bytes.
\* The byte at (c, r, k) depends on the position, so that moving a pixel
\* shows.
Paths ==
    {[hw |-> a, h |-> b, seed |-> s] :
        a \in 1..MaxHalfW, b \in 1..MaxH, s \in 0..MaxSeed}

LoadedImage(path) ==
    [c \in 1..NumChannels |->
        [r \in 1..path.h |->
            [k \in 1..(2 * path.hw) |->
                (path.seed * 97 + c * 53 + r * 29 + k * 11) % (PixMax + 1)]]]

\* transforms.Normalize(mean = 0.5, std = 0.5) on p / 255:
\* (p / 255 - 1/2) / (1/2) = (2 p - 255) / 255.  Numerator over 255.
Normalize(p) == 2 * p - PixMax

transform(img) ==
    [c \in DOMAIN img |->
        [r \in DOMAIN img[c] |->
            [k \in DOMAIN img[c][r] |-> Normalize(img[c][r][k])]]]

\* Shape (channels, height, width) of a 3-d tensor.
Shape3(t) == <<Len(t), Len(t[1]), Len(t[1][1])>>

\* sample[:, :, lo:hi] with Python's half-open, 0-based bounds.
SliceWidth(t, lo, hi) ==
    [c \in DOMAIN t |-> [r \in DOMAIN t[c] |-> SubSeq(t[c][r], lo + 1, hi)]]

\* The split of the sample into its left and right half.
SplitHalves(sample) ==
    LET W == Shape3(sample)[3]
    IN  <<SliceWidth(sample, 0, W \div 2), SliceWidth(sample, W \div 2, W)>>

\* __getitem__ without the "if self.transform is not None" branch.
getitem_untransformed(paths, index) ==
    SplitHalves(LoadedImage(paths[index]))

\* PhotoMapDataset.__getitem__
getitem(paths, index) ==
    LET path == paths[index]
        sample == transform(LoadedImage(path))
    IN  SplitHalves(sample)

(***************************************************************************)
(* 05_generative: Vgg16                                                    *)
(***************************************************************************)
\* torchvision's VGG-16 configuration "D": the numbers are the output
\* channels of convolutions (each followed by a ReLU), "M" is a MaxPool2d.
VggCfg == <<"64", "64", "M", "128", "128", "M", "256", "256", "256", "M",
            "512", "512", "512", "M", "512", "512", "512", "M">>

RECURSIVE MakeLayers(_)
MakeLayers(cfg) ==
    IF cfg = <<>> THEN <<>>
    ELSE (IF Head(cfg) = "M" THEN <<"MaxPool2d">> ELSE <<"Conv2d", "ReLU">>)
         \o MakeLayers(Tail(cfg))

\* models.vgg16(pretrained=True).features; Python index i is element i + 1.
vgg_pretrained_features == MakeLayers(VggCfg)

NumFeatureLayers == Len(vgg_pretrained_features)

LayerKind(i) == vgg_pretrained_features[i + 1]

\* What layer i computes.  The pretrained layers are opaque; they are
\* modelled as distinct maps on 0..FeatMod-1 that do not commute, so that
\* the order and the number of layers applied shows in the result.
FeatMod == 101
LayerApply(i, v) == (3 * v + i + 1) % FeatMod

\* torch.nn.Sequential.forward: the modules of the slice, in order.
RECURSIVE SequentialApply(_, _)
SequentialApply(slice, v) ==
    IF slice = <<>> THEN v
    ELSE SequentialApply(Tail(slice), LayerApply(Head(slice), v))

\* The ends of the four for-loops of Vgg16.__init__.
SliceEnd1 == 4
SliceEnd2 == 9
\* range(9, 15): the third slice one layer short.
SliceEnd3_early == 16 - 1
SliceEnd3 == 16
SliceEnd4 == 23

(***************************************************************************)
(* 05_generative: image_loader                                             *)
(***************************************************************************)
imsize_gpu == 512
imsize_cpu == 128

\* imsize = 512 if torch.cuda.is_available() else 128
imsize(cuda) == IF cuda THEN imsize_gpu ELSE imsize_cpu

\* Number of bands of a PIL image of the given mode; Image.open keeps the
\* mode of the file.
Bands(mode) ==
    CASE mode = "L" -> 1
      [] mode = "RGB" -> 3
      [] mode = "RGBA" -> 4

ImageModes == {"L", "RGB", "RGBA"}

\* The image files image_loader may be given.
ImageFiles ==
    {[mode |-> m, width |-> a, height |-> b] :
        m \in ImageModes, a \in 1..MaxFileDim, b \in 1..MaxFileDim}

\* Image.open(image_name): a PIL image, here its mode and (width, height).
ImageOpen(file) == file

\* A Resize that leaves the image as it is.
Resize_identity(image, size) == image

\* transforms.Resize((imsize, imsize)): the image scaled to that size.
Resize(image, size) == [image EXCEPT !.height = size[1], !.width = size[2]]

\* transforms.ToTensor(): size (C, H, W) of the tensor of a PIL image.
ToTensor(image) == <<Bands(image.mode), image.height, image.width>>

\* image_transform_fn = Compose([Resize((imsize, imsize)), ToTensor()])
image_transform_fn(image, cuda) ==
    ToTensor(Resize(image, <<imsize(cuda), imsize(cuda)>>))

\* tensor.unsqueeze(0), on sizes
unsqueeze0(size) == <<1>> \o size

\* image_loader(image_name): the size of the returned tensor
image_loader(image_name, cuda) ==
    LET image == ImageOpen(image_name)
    IN  unsqueeze0(image_transform_fn(image, cuda))

(***************************************************************************)
(* 05_generative: StyleLoss                                                *)
(***************************************************************************)
\* Feature maps of shape (b, c, h, w): t[n][i][y][x], integers.
FeatureShapes ==
    {<<b, c, h, w>> : b \in 1..MaxB, c \in 1..MaxC,
                      h \in 1..MaxHW, w \in 1..MaxHW}

FeatureMap(shape, seed) ==
    [n \in 1..shape[1] |->
        [i \in 1..shape[2] |->
            [y \in 1..shape[3] |->
                [k \in 1..shape[4] |->
                    ((seed * 7 + n * 5 + i * 3 + y * 2 + k + seed * i * k) % 5) - 2]]]]

\* features.size()
Size4(t) == <<Len(t), Len(t[1]), Len(t[1][1]), Len(t[1][1][1])>>

\* The rows of a matrix one after the other (row-major storage).
RECURSIVE FlattenRows(_)
FlattenRows(rows) ==
    IF rows = <<>> THEN <<>> ELSE Head(rows) \o FlattenRows(Tail(rows))

\* A view that keeps only the first row of every channel.
view_first_row(features, b, c, n) ==
    [s \in 1..b |-> [i \in 1..c |-> features[s][i][1]]]

\* features.view(b, c, w * h): every channel's h rows of w values become
\* one row of n = w * h values.
view(features, b, c, n) ==
    [s \in 1..b |-> [i \in 1..c |-> FlattenRows(features[s][i])]]

\* Inner product of two vectors of equal length.
Dot(u, v) == SumSeq([k \in DOMAIN u |-> u[k] * v[k]])

\* The Gram matrices of a batch of (c, n) matrices, "normed by c x h x w":
\* the numerators num[s][i][j] over the common denominator den.
GramProduct(flat, den) ==
    [den |-> den,
     num |-> [s \in DOMAIN flat |->
                [i \in DOMAIN flat[s] |->
                    [j \in DOMAIN flat[s] |-> Dot(flat[s][i], flat[s][j])]]]]

\* StyleLoss.gram_matrix
gram_matrix(features) ==
    LET size == Size4(features)
        b == size[1]
        c == size[2]
        h == size[3]
        w == size[4]
        flat == view(features, b, c, w * h)
    IN  GramProduct(flat, c * h * w)

\* Shape of a tensor of rank 3.
Size3(t) == <<Len(t), Len(t[1]), Len(t[1][1])>>

\* F.mse_loss(input, target) with reduction "mean" for two (b, c, c)
\* tensors over the same denominator d: sum (input - target)^2 / (d^2 * numel)
mse_loss(input, target) ==
    LET size == Size3(input.num)
        sq == [s \in 1..size[1] |->
                 SumSeq([i \in 1..size[2] |->
                    SumSeq([j \in 1..size[3] |->
                       (input.num[s][i][j] - target.num[s][i][j])
                     * (input.num[s][i][j] - target.num[s][i][j])])])]
    IN  [num |-> SumSeq(sq),
         den |-> input.den * target.den * size[1] * size[2] * size[3]]

\* A forward that compares the prediction with itself.
StyleLoss_forward_self(pred_features, target_features) ==
    mse_loss(gram_matrix(pred_features), gram_matrix(pred_features))

\* StyleLoss.forward
StyleLoss_forward(pred_features, target_features) ==
    LET pred_gram_matrix == gram_matrix(pred_features)
        target_gram_matrix == gram_matrix(target_features)
    IN  mse_loss(pred_gram_matrix, target_gram_matrix)

(***************************************************************************)
(* 04_dense: the train loop                                                *)
(***************************************************************************)
batch_size == 4
n_epochs_train == 25

\* len(train_dataloader) for a dataset of n samples (drop_last = False)
len_dataloader(n) == (n + batch_size - 1) \div batch_size

\* The statements of the body of "for batch in tqdm(train_dataloader)", in
\* the order of the cell.
TrainBody_step_first ==
    <<"unpack", "forward", "criterion", "step", "zero_grad", "backward",
      "add_scalar", "add_image", "incr">>

TrainBody ==
    <<"unpack", "forward", "criterion", "zero_grad", "backward", "step",
      "add_scalar", "add_image", "incr">>

\* The statement after statement st of a loop body; after the last one the
\* loop head again.
After(body, st, head) ==
    LET i == CHOOSE k \in DOMAIN body : body[k] = st
    IN  IF i = Len(body) THEN head ELSE body[i + 1]

\* epoch * len(train_dataloader) + n_iters
global_step_no_epoch(e, n, it) == it

global_step(e, n, it) == e * len_dataloader(n) + it

\* An entry of the record of calls of an iteration.
Call(name) == [call |-> name]

\* A gradient buffer (.grad): None, or the losses whose backward() has
\* added to it since it was last zeroed.
NoGrad == [defined |-> FALSE, from |-> {}]
ZeroGrad == [defined |-> TRUE, from |-> {}]

\* p.grad.zero_() for a parameter that has a gradient
zero_grad(grad) == IF grad.defined THEN ZeroGrad ELSE grad

\* What backward() of the loss l does to the .grad of a leaf: accumulate.
accumulate(grad, l) == [defined |-> TRUE, from |-> grad.from \cup {l}]

(***************************************************************************)
(* 05_generative: the style-transfer loop                                  *)
(***************************************************************************)
(* float32 arithmetic.  A float32 is m * 2^e with the integer mantissa m,  *)
(* 2^23 <= |m| < 2^24, or zero; every operation rounds its exact result to *)
(* the nearest float32, ties to the even mantissa.  The exponents of pixel *)
(* values are far from the ends of the float32 range.                      *)
(***************************************************************************)
F32Zero == [m |-> 0, e |-> 0]

Abs(i) == IF i < 0 THEN 0 - i ELSE i

Sign(i) == IF i < 0 THEN 0 - 1 ELSE 1

\* The quotient q with the remainder r of a division by d, rounded to an
\* integer: up when the remainder is more than half of d, to even when it
\* is exactly half.
RoundQuotient(q, r, d) ==
    IF 2 * r > d \/ (2 * r = d /\ q % 2 = 1) THEN q + 1 ELSE q

\* The float32 nearest to the integer i times 2^e.
F32Round(i, e) ==
    IF i = 0 THEN F32Zero
    ELSE IF Abs(i) < 2^24
    THEN LET k == CHOOSE j \in 0..23 :
                    /\ Abs(i) * 2^j >= 2^23
                    /\ \A h \in 0..(j - 1) : Abs(i) * 2^h < 2^23
         IN  [m |-> i * 2^k, e |-> e - k]
    ELSE LET k == CHOOSE j \in 1..7 :
                    /\ Abs(i) \div 2^j < 2^24
                    /\ \A h \in 0..(j - 1) : Abs(i) \div 2^h >= 2^24
             q == RoundQuotient(Abs(i) \div 2^k, Abs(i) % 2^k, 2^k)
         IN  IF q = 2^24
             THEN [m |-> Sign(i) * 2^23, e |-> e + k + 1]
             ELSE [m |-> Sign(i) * q, e |-> e + k]

F32(i) == F32Round(i, 0)

F32Half == F32Round(1, 0 - 1)

\* The sum of big and small, where big has the larger exponent and is d
\* binary places above small.  Up to 6 places the sum is computed exactly;
\* beyond, small is cut to 6 places below big and a last bit records
\* whether anything was cut off, which rounds like the exact sum.
AddAligned(big, small, d) ==
    IF d <= 6
    THEN F32Round(big.m * 2^d + small.m, small.e)
    ELSE LET sh == IF d - 5 > 24 THEN 24 ELSE d - 5
             t == Abs(small.m) \div 2^sh
             sticky == IF Abs(small.m) % 2^sh = 0 THEN 0 ELSE 1
         IN  F32Round(big.m * 2^6 + Sign(small.m) * (2 * t + sticky),
                      big.e - 6)

F32Add(a, b) ==
    IF a.m = 0 THEN b
    ELSE IF b.m = 0 THEN a
    ELSE IF a.e >= b.e THEN AddAligned(a, b, a.e - b.e)
    ELSE AddAligned(b, a, b.e - a.e)

F32Neg(a) == [m |-> 0 - a.m, e |-> a.e]

F32Sub(a, b) == F32Add(a, F32Neg(b))

\* Long division: steps more bits of the quotient q with remainder r of
\* a division by d.
RECURSIVE LongDiv(_, _, _, _)
LongDiv(q, r, d, steps) ==
    IF steps = 0 THEN [q |-> q, r |-> r]
    ELSE IF 2 * r >= d
         THEN LongDiv(2 * q + 1, 2 * r - d, d, steps - 1)
         ELSE LongDiv(2 * q, 2 * r, d, steps - 1)

F32Div(a, b) ==
    IF a.m = 0 THEN F32Zero
    ELSE LET n == Abs(a.m)
             d == Abs(b.m)
             k == IF n >= d THEN 23 ELSE 24
             l == LongDiv(n \div d, n % d, d, k)
             q == RoundQuotient(l.q, l.r, d)
             s == Sign(a.m) * Sign(b.m)
         IN  IF q = 2^24
             THEN [m |-> s * 2^23, e |-> a.e - b.e - k + 1]
             ELSE [m |-> s * q, e |-> a.e - b.e - k]

\* a <= b
F32Leq(a, b) == F32Sub(a, b).m <= 0

(***************************************************************************)
(* The pixel values of the photo -> map notebook, in float32               *)
(***************************************************************************)
\* transforms.ToTensor() on a pixel of an 8-bit image: the byte as a
\* float32, divided by 255
ToTensor_pixel(p) == F32Div(F32(p), F32(PixMax))

\* Normalize(mean=[0.5, 0.5, 0.5], std=[0.5, 0.5, 0.5])
Normalize_mean == <<F32Half, F32Half, F32Half>>
Normalize_std == <<F32Half, F32Half, F32Half>>

\* transforms.Normalize on the pixel v of channel c:
\* tensor.sub_(mean).div_(std)
Normalize_pixel(v, c) == F32Div(F32Sub(v, Normalize_mean[c]), Normalize_std[c])

unnormalize_half_only(v) == F32Div(v, F32(2))

\* imshow: img = img / 2 + 0.5
unnormalize(v) == F32Add(F32Div(v, F32(2)), F32Half)

(***************************************************************************)
n_epochs_transfer == 200

\* The two lists of layer names as the cell sets them.
content_loss_layers_cell == <<"relu2_2">>
style_loss_layers_cell == <<"relu1_2", "relu2_2", "relu3_3", "relu4_3">>

\* normalization_mean and normalization_std, in thousandths
normalization_mean == <<485, 456, 406>>
normalization_std == <<229, 224, 225>>

\* An image is one pixel value; the values 0.0 .. 1.0 are 0 .. PixelOne.
\* torch.clamp(v, 0.0, 1.0)
clamp_lower_only(v) == IF v < 0 THEN 0 ELSE v

clamp(v) == IF v < 0 THEN 0 ELSE IF v > PixelOne THEN PixelOne ELSE v

\* Whether clamp passes the gradient back at v: only inside [0.0, 1.0].
clamp_passes(v) == 0 <= v /\ v <= PixelOne

\* The objects of the notebook live in storage, a sequence of values; a
\* tensor is the index of its value.  tensor.clone() is a new object with
\* the same value.
clone_alias(st, p) == [storage |-> st, ptr |-> p]

clone(st, p) == [storage |-> Append(st, st[p]), ptr |-> Len(st) + 1]

\* The statements of the body of "for epoch in range(n_epochs)", in the
\* order of the cell.
TransferBody_no_zero_grad ==
    <<"preview", "clamp", "forward", "content_loss", "style_loss",
      "total_loss", "backward", "step">>

TransferBody_preview_last ==
    <<"clamp", "forward", "content_loss", "style_loss", "total_loss",
      "zero_grad", "backward", "step", "preview">>

TransferBody ==
    <<"preview", "clamp", "forward", "content_loss", "style_loss",
      "total_loss", "zero_grad", "backward", "step">>

\* content_loss += ..., style_loss += ...: the loss of one layer, between
\* the features of the input image and the target features at that layer.
LayerLoss(layer, pred, target) ==
    [layer |-> layer, pred |-> pred, target |-> target]

RECURSIVE SumVals(_)
SumVals(contributions) ==
    IF contributions = {} THEN 0
    ELSE LET c == CHOOSE d \in contributions : TRUE
         IN  c.val + SumVals(contributions \ {c})

\* torch.optim.SGD.step() on the parameter p: p -= lr * p.grad when p has a
\* gradient.  A gradient value g stands for the change lr * g of a pixel.
sgd_update(value, g) ==
    IF g.defined THEN value - SumVals(g.from) ELSE value

VARIABLES
    byte,                \* a pixel of a channel of an image file, 0..255
    channel,             \* its channel
    tensor,              \* the pixel after ToTensor
    img,                 \* the pixel after Normalize, as given to imshow
    img_unnormalized,    \* img after "img = img / 2 + 0.5" in imshow
    content_loss_layers, \* the layers of the content loss
    style_loss_layers,   \* the layers of the style loss
    env,                 \* the tensors of the style-transfer notebook by name
    storage,             \* their values
    grad,                \* their .grad
    leaf_requires_grad,  \* the tensors with requires_grad = True
    opt_params,          \* the parameters given to torch.optim.SGD
    x_clamp,             \* x = torch.clamp(input_image, 0.0, 1.0); 0 before
    input_image_features,
    content_loss, style_loss, total_loss,
    previews,            \* the epochs at which the preview was shown
    displayed,           \* the last image given to imshow
    n_samples,           \* len(train_dataset)
    epoch, n_iters,      \* loop variables of the train loop
    yielded,             \* batches train_dataloader has yielded this epoch
    batch,               \* the current batch
    model_params,        \* the UNet's weights: how many updates they have had
    model_grad,          \* .grad of the UNet's weights
    training,            \* model.training
    train_calls,         \* number of calls of model.train()
    map_image_pred_batch,
    loss,
    calls,               \* the calls made so far in the current iteration
    writer,              \* what the SummaryWriter has been given
    printed,             \* what print() has been given
    opt_step_count,      \* number of opt.step() calls
    cuda_available,      \* torch.cuda.is_available()
    style_image_path, content_image_path,
    style_image, content_image,   \* the loaded tensors
    pred_features, target_features,  \* arguments of StyleLoss.forward
    style_loss_value,    \* what StyleLoss.forward returned
    gram,                \* what StyleLoss.gram_matrix returned
    run,           \* which cells are being run
    pc,            \* position in the cells
    samples,       \* PhotoMapDataset.samples
    item,          \* what train_dataset[index] returned
    slice1, slice2, slice3, slice4,   \* Vgg16's four Sequential modules
    x,             \* loop variable of Vgg16.__init__
    requires_grad, \* argument of Vgg16.__init__
    param_requires_grad,  \* requires_grad of the parameters of each layer
    out            \* what Vgg16.forward returned

datasetVars == <<samples, item>>
vggVars == <<slice1, slice2, slice3, slice4, x, requires_grad,
             param_requires_grad, out>>
loaderVars == <<cuda_available, style_image_path, content_image_path,
                style_image, content_image>>
lossVars == <<pred_features, target_features, style_loss_value, gram>>
trainVars == <<n_samples, epoch, n_iters, yielded, batch, model_params,
               model_grad, training, train_calls, map_image_pred_batch, loss,
               calls, writer, printed, opt_step_count>>
transferVars == <<env, storage, grad, leaf_requires_grad, opt_params, x_clamp,
                  input_image_features, content_loss, style_loss, total_loss,
                  previews, displayed>>
configVars == <<content_loss_layers, style_loss_layers>>
showVars == <<byte, channel, tensor, img, img_unnormalized>>
vars == <<run, pc, configVars, showVars, datasetVars, vggVars, loaderVars, lossVars,
          trainVars, transferVars>>

\* The value of a name that is not bound yet.
None == [none |-> TRUE]

NoItem == None
NoOut == None

\* The layers of the feature stack that have parameters.
ConvLayers == {i \in 0..(NumFeatureLayers - 1) : LayerKind(i) = "Conv2d"}

DatasetIdle ==
    /\ samples = <<>>
    /\ item = NoItem

VggIdle ==
    /\ slice1 = <<>> /\ slice2 = <<>> /\ slice3 = <<>> /\ slice4 = <<>>
    /\ x = 0
    /\ requires_grad = FALSE
    /\ param_requires_grad = [i \in ConvLayers |-> TRUE]
    /\ out = NoOut

LoaderIdle ==
    /\ cuda_available = FALSE
    /\ style_image_path = None /\ content_image_path = None
    /\ style_image = None /\ content_image = None

LossIdle ==
    /\ pred_features = None /\ target_features = None
    /\ style_loss_value = None /\ gram = None

TrainIdle ==
    /\ n_samples = 0 /\ epoch = -1 /\ n_iters = 0 /\ yielded = 0
    /\ batch = None /\ model_params = 0 /\ model_grad = NoGrad
    /\ training = TRUE /\ train_calls = 0
    /\ map_image_pred_batch = None /\ loss = None
    /\ calls = <<>> /\ writer = <<>> /\ printed = <<>>
    /\ opt_step_count = 0

\* The two lists of layer names are set as in the cell.
ConfigCell ==
    /\ content_loss_layers = content_loss_layers_cell
    /\ style_loss_layers = style_loss_layers_cell

ShowIdle ==
    /\ byte = 0 /\ channel = 1
    /\ tensor = F32Zero /\ img = F32Zero /\ img_unnormalized = F32Zero

TransferIdle ==
    /\ env = <<>> /\ storage = <<>> /\ grad = <<>>
    /\ leaf_requires_grad = {} /\ opt_params = <<>>
    /\ x_clamp = 0 /\ input_image_features = None
    /\ content_loss = None /\ style_loss = None /\ total_loss = None
    /\ previews = <<>> /\ displayed = None

(***************************************************************************)
(* Run "getitem": train_dataset = PhotoMapDataset(...); train_dataset[i]   *)
(***************************************************************************)
InitDataset ==
    /\ run = "getitem"
    /\ ConfigCell /\ ShowIdle
    /\ pc = "ready"
    /\ \E a \in Paths, b \in Paths : samples = <<a, b>>
    /\ item = NoItem
    /\ VggIdle /\ LoaderIdle /\ LossIdle /\ TrainIdle /\ TransferIdle

GetItem ==
    /\ run = "getitem"
    /\ pc = "ready"
    /\ \E index \in 1..Len(samples) :
          item' = [index |-> index, pair |-> getitem(samples, index)]
    /\ pc' = "returned"
    /\ UNCHANGED <<run, configVars, showVars, samples, vggVars, loaderVars, lossVars, trainVars, transferVars>>

(***************************************************************************)
(* Run "vgg": vgg16 = Vgg16(requires_grad); vgg16(input)                   *)
(***************************************************************************)
InitVgg ==
    /\ run = "vgg"
    /\ ConfigCell /\ ShowIdle
    /\ pc = "slice1"
    /\ slice1 = <<>> /\ slice2 = <<>> /\ slice3 = <<>> /\ slice4 = <<>>
    /\ x = 0
    /\ requires_grad \in BOOLEAN
    /\ param_requires_grad = [i \in ConvLayers |-> TRUE]
    /\ out = NoOut
    /\ DatasetIdle /\ LoaderIdle /\ LossIdle /\ TrainIdle /\ TransferIdle

\* for x in range(4): self.slice1.add_module(str(x), features[x])
AddSlice1 ==
    /\ run = "vgg" /\ pc = "slice1"
    /\ IF x < SliceEnd1
       THEN /\ slice1' = Append(slice1, x)
            /\ x' = x + 1
            /\ pc' = pc
       ELSE /\ x' = SliceEnd1
            /\ pc' = "slice2"
            /\ UNCHANGED slice1
    /\ UNCHANGED <<run, configVars, showVars, datasetVars, loaderVars, lossVars, trainVars, transferVars, slice2, slice3, slice4, requires_grad,
                   param_requires_grad, out>>

\* for x in range(4, 9): self.slice2.add_module(str(x), features[x])
AddSlice2 ==
    /\ run = "vgg" /\ pc = "slice2"
    /\ IF x < SliceEnd2
       THEN /\ slice2' = Append(slice2, x)
            /\ x' = x + 1
            /\ pc' = pc
       ELSE /\ x' = SliceEnd2
            /\ pc' = "slice3"
            /\ UNCHANGED slice2
    /\ UNCHANGED <<run, configVars, showVars, datasetVars, loaderVars, lossVars, trainVars, transferVars, slice1, slice3, slice4, requires_grad,
                   param_requires_grad, out>>

\* for x in range(9, 16): self.slice3.add_module(str(x), features[x])
AddSlice3 ==
    /\ run = "vgg" /\ pc = "slice3"
    /\ IF x < SliceEnd3
       THEN /\ slice3' = Append(slice3, x)
            /\ x' = x + 1
            /\ pc' = pc
       ELSE /\ x' = SliceEnd3
            /\ pc' = "slice4"
            /\ UNCHANGED slice3
    /\ UNCHANGED <<run, configVars, showVars, datasetVars, loaderVars, lossVars, trainVars, transferVars, slice1, slice2, slice4, requires_grad,
                   param_requires_grad, out>>

\* for x in range(16, 23): self.slice4.add_module(str(x), features[x])
AddSlice4 ==
    /\ run = "vgg" /\ pc = "slice4"
    /\ IF x < SliceEnd4
       THEN /\ slice4' = Append(slice4, x)
            /\ x' = x + 1
            /\ pc' = pc
       ELSE /\ pc' = "freeze"
            /\ UNCHANGED <<slice4, x,
                   transferVars>>
    /\ UNCHANGED <<run, configVars, showVars, datasetVars, loaderVars, lossVars, trainVars, transferVars, slice1, slice2, slice3, requires_grad,
                   param_requires_grad, out>>

\* self.parameters(): the parameters of the modules registered in the slices.
SliceParameters ==
    {i \in ConvLayers : i \in Range(slice1) \cup Range(slice2)
                                \cup Range(slice3) \cup Range(slice4)}

\* if not requires_grad: for param in self.parameters(): param.requires_grad = False
Freeze ==
    /\ run = "vgg" /\ pc = "freeze"
    /\ param_requires_grad' =
          IF ~requires_grad
          THEN [i \in ConvLayers |->
                  IF i \in SliceParameters THEN FALSE
                  ELSE param_requires_grad[i]]
          ELSE param_requires_grad
    /\ pc' = "built"
    /\ UNCHANGED <<run, configVars, showVars, datasetVars, loaderVars, lossVars, trainVars, transferVars, slice1, slice2, slice3, slice4, x,
                   requires_grad, out>>

\* The body of Vgg16.forward: "just forward slice by slice and save
\* intermediate features".
ForwardSlices(s1, s2, s3, s4, v) ==
    LET x_relu1_2 == SequentialApply(s1, v)
        x_relu2_2 == SequentialApply(s2, x_relu1_2)
        x_relu3_3 == SequentialApply(s3, x_relu2_2)
        x_relu4_3 == SequentialApply(s4, x_relu3_3)
    IN  <<x_relu1_2, x_relu2_2, x_relu3_3, x_relu4_3>>

\* The dictionary with the features of two layers exchanged.
OutDict_swapped(h) ==
    [relu1_2 |-> h[1], relu2_2 |-> h[3], relu3_3 |-> h[2], relu4_3 |-> h[4]]

\* out = {'relu1_2': x_relu1_2, ...}; return out
OutDict(h) ==
    [relu1_2 |-> h[1], relu2_2 |-> h[2], relu3_3 |-> h[3], relu4_3 |-> h[4]]

forward(s1, s2, s3, s4, v) == OutDict(ForwardSlices(s1, s2, s3, s4, v))

Forward ==
    /\ run = "vgg" /\ pc = "built"
    /\ \E v \in 0..MaxInput :
          out' = [input |-> v, features |-> forward(slice1, slice2, slice3, slice4, v)]
    /\ pc' = "forwarded"
    /\ UNCHANGED <<run, configVars, showVars, datasetVars, loaderVars, lossVars, trainVars, transferVars, slice1, slice2, slice3, slice4, x,
                   requires_grad, param_requires_grad>>

(***************************************************************************)
(* Run "loader": the cell that loads the style and the content image       *)
(***************************************************************************)
InitLoader ==
    /\ run = "loader"
    /\ ConfigCell /\ ShowIdle
    /\ pc = "load_style"
    /\ cuda_available \in BOOLEAN
    /\ style_image_path \in ImageFiles
    /\ content_image_path \in ImageFiles
    /\ style_image = None /\ content_image = None
    /\ DatasetIdle /\ VggIdle /\ LossIdle /\ TrainIdle /\ TransferIdle

\* style_image = image_loader(style_image_path)
LoadStyle ==
    /\ run = "loader" /\ pc = "load_style"
    /\ style_image' = [size |-> image_loader(style_image_path, cuda_available)]
    /\ pc' = "load_content"
    /\ UNCHANGED <<run, configVars, showVars, datasetVars, vggVars, lossVars, trainVars, transferVars, cuda_available,
                   style_image_path, content_image_path, content_image>>

\* content_image = image_loader(content_image_path)
LoadContent ==
    /\ run = "loader" /\ pc = "load_content"
    /\ content_image' = [size |-> image_loader(content_image_path, cuda_available)]
    /\ pc' = "assert"
    /\ UNCHANGED <<run, configVars, showVars, datasetVars, vggVars, lossVars, trainVars, transferVars, cuda_available,
                   style_image_path, content_image_path, style_image>>

\* assert style_image.size() == content_image.size(), "we need to ..."
AssertSameSize ==
    /\ run = "loader" /\ pc = "assert"
    /\ pc' = IF style_image.size = content_image.size
             THEN "loaded" ELSE "AssertionError"
    /\ UNCHANGED <<run, configVars, showVars, datasetVars, vggVars, lossVars, loaderVars, trainVars, transferVars>>

(***************************************************************************)
(* Run "styleloss": style_criterion(pred_features, target_features)        *)
(***************************************************************************)
InitStyleLoss ==
    /\ run = "styleloss"
    /\ ConfigCell /\ ShowIdle
    /\ pc = "ready"
    /\ \E shape \in FeatureShapes, a \in 0..MaxFeatSeed, b \in 0..MaxFeatSeed :
          /\ pred_features = FeatureMap(shape, a)
          /\ target_features = FeatureMap(shape, b)
    /\ style_loss_value = None /\ gram = None
    /\ DatasetIdle /\ VggIdle /\ LoaderIdle /\ TrainIdle /\ TransferIdle

\* style_criterion.gram_matrix(pred_features)
CallGramMatrix ==
    /\ run = "styleloss" /\ pc = "ready"
    /\ gram' = gram_matrix(pred_features)
    /\ pc' = "gram"
    /\ UNCHANGED <<run, configVars, showVars, datasetVars, vggVars, loaderVars, trainVars, transferVars, pred_features,
                   target_features, style_loss_value>>

\* style_criterion(pred_features, target_features)
CallStyleLoss ==
    /\ run = "styleloss" /\ pc = "gram"
    /\ style_loss_value' = StyleLoss_forward(pred_features, target_features)
    /\ pc' = "loss"
    /\ UNCHANGED <<run, configVars, showVars, datasetVars, vggVars, loaderVars, trainVars, transferVars, pred_features,
                   target_features, gram>>

(***************************************************************************)
(* Run "train": the train loop of the photo -> map notebook                *)
(***************************************************************************)
\* The dataset is not empty: ImageFolder raises an error for a folder
\* without images.
InitTrain ==
    /\ run = "train"
    /\ ConfigCell /\ ShowIdle
    /\ pc = "for_epoch"
    /\ n_samples \in (1..MaxSamples) \cup {LargeSamples}
    /\ epoch = -1 /\ n_iters = 0 /\ yielded = 0
    /\ batch = None /\ model_params = 0 /\ model_grad = NoGrad
    /\ training \in BOOLEAN /\ train_calls = 0
    /\ map_image_pred_batch = None /\ loss = None
    /\ calls = <<>> /\ writer = <<>> /\ printed = <<>>
    /\ opt_step_count = 0
    /\ DatasetIdle /\ VggIdle /\ LoaderIdle /\ LossIdle /\ TransferIdle

\* for epoch in range(n_epochs): the next value of the range, or the end
\* of the loop (epoch is -1 before the first one).
ForEpoch ==
    /\ run = "train" /\ pc = "for_epoch"
    /\ LET e == epoch + 1
       IN  IF e < n_epochs_train
           THEN /\ epoch' = e
                /\ pc' = "model.train"
           ELSE /\ pc' = "done"
                /\ UNCHANGED epoch
    /\ UNCHANGED <<run, configVars, showVars, datasetVars, vggVars, loaderVars, lossVars,
                   n_samples, n_iters, yielded, batch, model_params,
                   model_grad, training, train_calls, map_image_pred_batch,
                   loss, calls, writer, printed, opt_step_count,
                   transferVars>>

\* model.train()
ModelTrain ==
    /\ run = "train" /\ pc = "model.train"
    /\ training' = TRUE
    /\ train_calls' = train_calls + 1
    /\ pc' = "n_iters = 0"
    /\ UNCHANGED <<run, configVars, showVars, datasetVars, vggVars, loaderVars, lossVars,
                   n_samples, epoch, n_iters, yielded, batch, model_params,
                   model_grad, map_image_pred_batch, loss, calls, writer,
                   printed, opt_step_count,
                   transferVars>>

\* "n_iters = 0" done for the first epoch only.
ResetIters_once ==
    /\ run = "train" /\ pc = "n_iters = 0"
    /\ n_iters' = IF epoch = 0 THEN 0 ELSE n_iters
    /\ yielded' = 0
    /\ pc' = "for_batch"
    /\ UNCHANGED <<run, configVars, showVars, datasetVars, vggVars, loaderVars, lossVars, n_samples,
                   epoch, batch, model_params, model_grad, training,
                   train_calls, map_image_pred_batch, loss, calls, writer,
                   printed, opt_step_count, transferVars>>

\* n_iters = 0
ResetIters ==
    /\ run = "train" /\ pc = "n_iters = 0"
    /\ n_iters' = 0
    /\ yielded' = 0
    /\ pc' = "for_batch"
    /\ UNCHANGED <<run, configVars, showVars, datasetVars, vggVars, loaderVars, lossVars,
                   n_samples, epoch, batch, model_params, model_grad,
                   training, train_calls, map_image_pred_batch, loss, calls,
                   writer, printed, opt_step_count,
                   transferVars>>

\* for batch in tqdm(train_dataloader): the next batch of this epoch's
\* shuffled order, or the end of the epoch.
ForBatch ==
    /\ run = "train" /\ pc = "for_batch"
    /\ IF yielded < len_dataloader(n_samples)
       THEN /\ batch' = [epoch |-> epoch, index |-> yielded]
            /\ yielded' = yielded + 1
            /\ calls' = <<>>
            /\ pc' = TrainBody[1]
       ELSE /\ pc' = "epoch_end"
            /\ UNCHANGED <<batch, yielded, calls,
                   transferVars>>
    /\ UNCHANGED <<run, configVars, showVars, datasetVars, vggVars, loaderVars, lossVars,
                   n_samples, epoch, n_iters, model_params, model_grad,
                   training, train_calls, map_image_pred_batch, loss, writer,
                   printed, opt_step_count,
                   transferVars>>

\* photo_image_batch, map_image_batch = batch; ... .to(device)
Unpack ==
    /\ run = "train" /\ pc = "unpack"
    /\ calls' = Append(calls, Call("unpack"))
    /\ pc' = After(TrainBody, "unpack", "for_batch")
    /\ UNCHANGED <<run, configVars, showVars, datasetVars, vggVars, loaderVars, lossVars,
                   n_samples, epoch, n_iters, yielded, batch, model_params,
                   model_grad, training, train_calls, map_image_pred_batch,
                   loss, writer, printed, opt_step_count,
                   transferVars>>

\* map_image_pred_batch = model(photo_image_batch)
TrainForward ==
    /\ run = "train" /\ pc = "forward"
    /\ map_image_pred_batch' = [params |-> model_params, batch |-> batch]
    /\ calls' = Append(calls, Call("forward"))
    /\ pc' = After(TrainBody, "forward", "for_batch")
    /\ UNCHANGED <<run, configVars, showVars, datasetVars, vggVars, loaderVars, lossVars,
                   n_samples, epoch, n_iters, yielded, batch, model_params,
                   model_grad, training, train_calls, loss, writer, printed,
                   opt_step_count,
                   transferVars>>

\* loss = criterion(map_image_pred_batch, map_image_batch)
Criterion ==
    /\ run = "train" /\ pc = "criterion"
    /\ loss' = [pred |-> map_image_pred_batch, target |-> batch]
    /\ calls' = Append(calls, Call("criterion"))
    /\ pc' = After(TrainBody, "criterion", "for_batch")
    /\ UNCHANGED <<run, configVars, showVars, datasetVars, vggVars, loaderVars, lossVars,
                   n_samples, epoch, n_iters, yielded, batch, model_params,
                   model_grad, training, train_calls, map_image_pred_batch,
                   writer, printed, opt_step_count,
                   transferVars>>

\* opt.zero_grad()
TrainZeroGrad ==
    /\ run = "train" /\ pc = "zero_grad"
    /\ model_grad' = zero_grad(model_grad)
    /\ calls' = Append(calls, Call("zero_grad"))
    /\ pc' = After(TrainBody, "zero_grad", "for_batch")
    /\ UNCHANGED <<run, configVars, showVars, datasetVars, vggVars, loaderVars, lossVars,
                   n_samples, epoch, n_iters, yielded, batch, model_params,
                   training, train_calls, map_image_pred_batch, loss, writer,
                   printed, opt_step_count,
                   transferVars>>

\* loss.backward()
TrainBackward ==
    /\ run = "train" /\ pc = "backward"
    /\ model_grad' = accumulate(model_grad, loss)
    /\ calls' = Append(calls, Call("backward"))
    /\ pc' = After(TrainBody, "backward", "for_batch")
    /\ UNCHANGED <<run, configVars, showVars, datasetVars, vggVars, loaderVars, lossVars,
                   n_samples, epoch, n_iters, yielded, batch, model_params,
                   training, train_calls, map_image_pred_batch, loss, writer,
                   printed, opt_step_count,
                   transferVars>>

\* opt.step(): Adam updates the parameters that have a gradient.
TrainStep ==
    /\ run = "train" /\ pc = "step"
    /\ model_params' = IF model_grad.defined THEN model_params + 1
                       ELSE model_params
    /\ opt_step_count' = opt_step_count + 1
    /\ calls' = Append(calls, [call |-> "step", grad |-> model_grad])
    /\ pc' = After(TrainBody, "step", "for_batch")
    /\ UNCHANGED <<run, configVars, showVars, datasetVars, vggVars, loaderVars, lossVars,
                   n_samples, epoch, n_iters, yielded, batch, model_grad,
                   training, train_calls, map_image_pred_batch, loss, writer,
                   printed,
                   transferVars>>

\* writer.add_scalar("train/loss", loss.item(), global_step=...)
AddScalar ==
    /\ run = "train" /\ pc = "add_scalar"
    /\ writer' = Append(writer, [tag |-> "train/loss", value |-> loss,
                                 step |-> global_step(epoch, n_samples, n_iters)])
    /\ calls' = Append(calls, Call("add_scalar"))
    /\ pc' = After(TrainBody, "add_scalar", "for_batch")
    /\ UNCHANGED <<run, configVars, showVars, datasetVars, vggVars, loaderVars, lossVars,
                   n_samples, epoch, n_iters, yielded, batch, model_params,
                   model_grad, training, train_calls, map_image_pred_batch,
                   loss, printed, opt_step_count,
                   transferVars>>

AddImage_global_modulus ==
    /\ run = "train" /\ pc = "add_image"
    /\ writer' =
          IF global_step(epoch, n_samples, n_iters) % 50 = 0
          THEN writer \o
               <<[tag |-> "train/photo_image", value |-> batch,
                  step |-> global_step(epoch, n_samples, n_iters)],
                 [tag |-> "train/map_image_pred", value |-> map_image_pred_batch,
                  step |-> global_step(epoch, n_samples, n_iters)],
                 [tag |-> "train/map_image_gt", value |-> batch,
                  step |-> global_step(epoch, n_samples, n_iters)]>>
          ELSE writer
    /\ pc' = After(TrainBody, "add_image", "for_batch")
    /\ UNCHANGED <<run, configVars, showVars, datasetVars, vggVars, loaderVars, lossVars,
                   n_samples, epoch, n_iters, yielded, batch, model_params,
                   model_grad, training, train_calls, map_image_pred_batch,
                   loss, calls, printed, opt_step_count,
                   transferVars>>

\* if n_iters % 50 == 0: writer.add_image(...) for the three images
AddImage ==
    /\ run = "train" /\ pc = "add_image"
    /\ writer' =
          IF n_iters % 50 = 0
          THEN writer \o
               <<[tag |-> "train/photo_image", value |-> batch,
                  step |-> global_step(epoch, n_samples, n_iters)],
                 [tag |-> "train/map_image_pred", value |-> map_image_pred_batch,
                  step |-> global_step(epoch, n_samples, n_iters)],
                 [tag |-> "train/map_image_gt", value |-> batch,
                  step |-> global_step(epoch, n_samples, n_iters)]>>
          ELSE writer
    /\ pc' = After(TrainBody, "add_image", "for_batch")
    /\ UNCHANGED <<run, configVars, showVars, datasetVars, vggVars, loaderVars, lossVars,
                   n_samples, epoch, n_iters, yielded, batch, model_params,
                   model_grad, training, train_calls, map_image_pred_batch,
                   loss, calls, printed, opt_step_count,
                   transferVars>>

\* n_iters += 1
IncrIters ==
    /\ run = "train" /\ pc = "incr"
    /\ n_iters' = n_iters + 1
    /\ pc' = After(TrainBody, "incr", "for_batch")
    /\ UNCHANGED <<run, configVars, showVars, datasetVars, vggVars, loaderVars, lossVars,
                   n_samples, epoch, yielded, batch, model_params,
                   model_grad, training, train_calls, map_image_pred_batch,
                   loss, calls, writer, printed, opt_step_count,
                   transferVars>>

\* print("Epoch {} done.".format(epoch))
PrintEpoch ==
    /\ run = "train" /\ pc = "epoch_end"
    /\ printed' = Append(printed, epoch)
    /\ pc' = "for_epoch"
    /\ UNCHANGED <<run, configVars, showVars, datasetVars, vggVars, loaderVars, lossVars,
                   n_samples, epoch, n_iters, yielded, batch, model_params,
                   model_grad, training, train_calls, map_image_pred_batch,
                   loss, calls, writer, opt_step_count,
                   transferVars>>

(***************************************************************************)
(* Run "transfer": the cells from "input_image = content_image.clone()"    *)
(* to "imshow(input_image, title='Result')"                                *)
(***************************************************************************)
\* The state after the cells above: the two images are loaded and have the
\* same size, vgg16 = Vgg16(requires_grad=True) and normalizer exist.
InitTransfer ==
    /\ run = "transfer"
    /\ content_loss_layers \in {<<>>, content_loss_layers_cell}
    /\ style_loss_layers \in {<<>>, style_loss_layers_cell}
    /\ ShowIdle
    /\ pc = "clone"
    /\ cuda_available = FALSE
    /\ style_image_path = [mode |-> "RGB", width |-> 1, height |-> 1]
    /\ content_image_path = [mode |-> "RGB", width |-> 1, height |-> 1]
    /\ style_image = [size |-> image_loader(style_image_path, cuda_available)]
    /\ content_image = [size |-> image_loader(content_image_path, cuda_available)]
    /\ env = [style_image |-> 1, content_image |-> 2, vgg16 |-> 3,
              mean |-> 4, std |-> 5]
    /\ \E c \in 0..PixelOne :
          storage = <<PixelOne, c, 0, normalization_mean, normalization_std>>
    /\ grad = [p \in 1..5 |-> NoGrad]
    /\ leaf_requires_grad = {3}
    /\ opt_params = <<>>
    /\ x_clamp = 0 /\ input_image_features = None
    /\ content_loss = None /\ style_loss = None /\ total_loss = None
    /\ previews = <<>> /\ displayed = None
    /\ n_samples = 0 /\ epoch = -1 /\ n_iters = 0 /\ yielded = 0
    /\ batch = None /\ model_params = 0 /\ model_grad = NoGrad
    /\ training = TRUE /\ train_calls = 0
    /\ map_image_pred_batch = None /\ loss = None
    /\ calls = <<>> /\ writer = <<>> /\ printed = <<>>
    /\ opt_step_count = 0
    /\ DatasetIdle /\ VggIdle /\ LossIdle

\* input_image = content_image.clone()
CloneContent ==
    /\ run = "transfer" /\ pc = "clone"
    /\ LET r == clone(storage, env.content_image)
       IN  /\ storage' = r.storage
           /\ env' = [n \in DOMAIN env \cup {"input_image"} |->
                        IF n = "input_image" THEN r.ptr ELSE env[n]]
           /\ grad' = [p \in 1..Len(r.storage) |->
                         IF p \in DOMAIN grad THEN grad[p] ELSE NoGrad]
    /\ pc' = "requires_grad_"
    /\ UNCHANGED <<run, configVars, showVars, datasetVars, vggVars, loaderVars, lossVars,
                   trainVars, leaf_requires_grad, opt_params, x_clamp,
                   input_image_features, content_loss, style_loss,
                   total_loss, previews, displayed>>

\* input_image.requires_grad_(); imshow(input_image, title='Input Image')
RequiresGrad ==
    /\ run = "transfer" /\ pc = "requires_grad_"
    /\ leaf_requires_grad' = leaf_requires_grad \cup {env.input_image}
    /\ displayed' = [title |-> "Input Image", image |-> storage[env.input_image]]
    /\ pc' = "features"
    /\ UNCHANGED <<run, configVars, showVars, datasetVars, vggVars, loaderVars, lossVars,
                   trainVars, env, storage, grad, opt_params, x_clamp,
                   input_image_features, content_loss, style_loss,
                   total_loss, previews>>

\* content_image_features = ...; style_image_features = ...: the features
\* of the two normalized images, computed once.
ImageFeatures ==
    /\ run = "transfer" /\ pc = "features"
    /\ storage' = storage \o
          <<[vgg16 |-> storage[env.vgg16], image |-> storage[env.content_image]],
            [vgg16 |-> storage[env.vgg16], image |-> storage[env.style_image]]>>
    /\ env' = [n \in DOMAIN env \cup {"content_image_features",
                                      "style_image_features"} |->
                 IF n = "content_image_features" THEN Len(storage) + 1
                 ELSE IF n = "style_image_features" THEN Len(storage) + 2
                 ELSE env[n]]
    /\ grad' = [p \in 1..(Len(storage) + 2) |->
                  IF p \in DOMAIN grad THEN grad[p] ELSE NoGrad]
    /\ pc' = "opt"
    /\ UNCHANGED <<run, configVars, showVars, datasetVars, vggVars, loaderVars, lossVars,
                   trainVars, leaf_requires_grad, opt_params, x_clamp,
                   input_image_features, content_loss, style_loss,
                   total_loss, previews, displayed>>

\* opt = torch.optim.SGD([input_image], lr=0.1)
MakeOpt ==
    /\ run = "transfer" /\ pc = "opt"
    /\ opt_params' = <<env.input_image>>
    /\ pc' = "for_epoch"
    /\ UNCHANGED <<run, configVars, showVars, datasetVars, vggVars, loaderVars, lossVars,
                   trainVars, env, storage, grad, leaf_requires_grad,
                   x_clamp, input_image_features, content_loss, style_loss,
                   total_loss, previews, displayed>>

\* for epoch in range(n_epochs): the next value of the range, or the end
\* of the loop.
TransferForEpoch ==
    /\ run = "transfer" /\ pc = "for_epoch"
    /\ IF epoch + 1 < n_epochs_transfer
       THEN /\ epoch' = epoch + 1
            /\ calls' = <<>>
            /\ pc' = TransferBody[1]
       ELSE /\ pc' = "result"
            /\ UNCHANGED <<epoch, calls>>
    /\ UNCHANGED <<run, configVars, showVars, datasetVars, vggVars, loaderVars, lossVars,
                   n_samples, n_iters, yielded, batch, model_params,
                   model_grad, training, train_calls, map_image_pred_batch,
                   loss, writer, printed, opt_step_count, transferVars>>

\* if epoch % 10 == 0: print("Epoch: ", epoch); imshow(torch.clamp(
\*     input_image.clone(), 0.0, 1.0), title='Input Image'); plt.show()
Preview ==
    /\ run = "transfer" /\ pc = "preview"
    /\ IF epoch % 10 = 0
       THEN /\ previews' = Append(previews, epoch)
            /\ displayed' = [title |-> "Input Image",
                             image |-> clamp(storage[env.input_image])]
       ELSE UNCHANGED <<previews, displayed>>
    /\ pc' = After(TransferBody, "preview", "for_epoch")
    /\ UNCHANGED <<run, configVars, showVars, datasetVars, vggVars, loaderVars, lossVars,
                   trainVars, env, storage, grad, leaf_requires_grad,
                   opt_params, x_clamp, input_image_features, content_loss,
                   style_loss, total_loss>>

\* x = torch.clamp(input_image, 0.0, 1.0)
Clamp ==
    /\ run = "transfer" /\ pc = "clamp"
    /\ x_clamp' = clamp(storage[env.input_image])
    /\ calls' = Append(calls, Call("clamp"))
    /\ pc' = After(TransferBody, "clamp", "for_epoch")
    /\ UNCHANGED <<run, configVars, showVars, datasetVars, vggVars, loaderVars, lossVars,
                   n_samples, epoch, n_iters, yielded, batch, model_params,
                   model_grad, training, train_calls, map_image_pred_batch,
                   loss, writer, printed, opt_step_count, env, storage, grad,
                   leaf_requires_grad, opt_params, input_image_features,
                   content_loss, style_loss, total_loss, previews, displayed>>

\* input_image_features = vgg16(normalizer(x))
TransferForward ==
    /\ run = "transfer" /\ pc = "forward"
    /\ input_image_features' = [vgg16 |-> storage[env.vgg16], image |-> x_clamp]
    /\ calls' = Append(calls, Call("forward"))
    /\ pc' = After(TransferBody, "forward", "for_epoch")
    /\ UNCHANGED <<run, configVars, showVars, datasetVars, vggVars, loaderVars, lossVars,
                   n_samples, epoch, n_iters, yielded, batch, model_params,
                   model_grad, training, train_calls, map_image_pred_batch,
                   loss, writer, printed, opt_step_count, env, storage, grad,
                   leaf_requires_grad, opt_params, x_clamp, content_loss,
                   style_loss, total_loss, previews, displayed>>

ContentLoss_empty_mean ==
    /\ run = "transfer" /\ pc = "content_loss"
    /\ IF FALSE
       THEN /\ pc' = "ZeroDivisionError"
            /\ UNCHANGED content_loss
       ELSE /\ content_loss' =
                  [terms |-> [k \in DOMAIN content_loss_layers |->
                                LayerLoss(content_loss_layers[k],
                                          input_image_features,
                                          storage[env.content_image_features])],
                   divided_by |-> Len(content_loss_layers)]
            /\ pc' = After(TransferBody, "content_loss", "for_epoch")
    /\ calls' = Append(calls, Call("content_loss"))
    /\ UNCHANGED <<run, configVars, showVars, datasetVars, vggVars, loaderVars, lossVars,
                   n_samples, epoch, n_iters, yielded, batch, model_params,
                   model_grad, training, train_calls, map_image_pred_batch,
                   loss, writer, printed, opt_step_count, env, storage, grad,
                   leaf_requires_grad, opt_params, x_clamp,
                   input_image_features, style_loss, total_loss, previews,
                   displayed>>

\* content_loss = 0.0; for layer in content_loss_layers: content_loss += ...
\* content_loss = content_loss / len(content_loss_layers)
ContentLoss ==
    /\ run = "transfer" /\ pc = "content_loss"
    /\ IF Len(content_loss_layers) = 0
       THEN /\ pc' = "ZeroDivisionError"
            /\ UNCHANGED content_loss
       ELSE /\ content_loss' =
                  [terms |-> [k \in DOMAIN content_loss_layers |->
                                LayerLoss(content_loss_layers[k],
                                          input_image_features,
                                          storage[env.content_image_features])],
                   divided_by |-> Len(content_loss_layers)]
            /\ pc' = After(TransferBody, "content_loss", "for_epoch")
    /\ calls' = Append(calls, Call("content_loss"))
    /\ UNCHANGED <<run, configVars, showVars, datasetVars, vggVars, loaderVars, lossVars,
                   n_samples, epoch, n_iters, yielded, batch, model_params,
                   model_grad, training, train_calls, map_image_pred_batch,
                   loss, writer, printed, opt_step_count, env, storage, grad,
                   leaf_requires_grad, opt_params, x_clamp,
                   input_image_features, style_loss, total_loss, previews,
                   displayed>>

\* style_loss = 0.0; for layer in style_loss_layers: style_loss += ...
\* style_loss = style_loss / len(style_loss_layers)
StyleLossMean ==
    /\ run = "transfer" /\ pc = "style_loss"
    /\ IF Len(style_loss_layers) = 0
       THEN /\ pc' = "ZeroDivisionError"
            /\ UNCHANGED style_loss
       ELSE /\ style_loss' =
                  [terms |-> [k \in DOMAIN style_loss_layers |->
                                LayerLoss(style_loss_layers[k],
                                          input_image_features,
                                          storage[env.style_image_features])],
                   divided_by |-> Len(style_loss_layers)]
            /\ pc' = After(TransferBody, "style_loss", "for_epoch")
    /\ calls' = Append(calls, Call("style_loss"))
    /\ UNCHANGED <<run, configVars, showVars, datasetVars, vggVars, loaderVars, lossVars,
                   n_samples, epoch, n_iters, yielded, batch, model_params,
                   model_grad, training, train_calls, map_image_pred_batch,
                   loss, writer, printed, opt_step_count, env, storage, grad,
                   leaf_requires_grad, opt_params, x_clamp,
                   input_image_features, content_loss, total_loss, previews,
                   displayed>>

\* total_loss = ... (weighted sum of content and style losses)
TotalLoss ==
    /\ run = "transfer" /\ pc = "total_loss"
    /\ total_loss' = [epoch |-> epoch, content |-> content_loss,
                      style |-> style_loss]
    /\ calls' = Append(calls, Call("total_loss"))
    /\ pc' = After(TransferBody, "total_loss", "for_epoch")
    /\ UNCHANGED <<run, configVars, showVars, datasetVars, vggVars, loaderVars, lossVars,
                   n_samples, epoch, n_iters, yielded, batch, model_params,
                   model_grad, training, train_calls, map_image_pred_batch,
                   loss, writer, printed, opt_step_count, env, storage, grad,
                   leaf_requires_grad, opt_params, x_clamp,
                   input_image_features, content_loss, style_loss, previews,
                   displayed>>

\* opt.zero_grad(): zeroes the .grad of the optimizer's parameters
TransferZeroGrad ==
    /\ run = "transfer" /\ pc = "zero_grad"
    /\ grad' = [p \in DOMAIN grad |->
                  IF p \in Range(opt_params) THEN zero_grad(grad[p])
                  ELSE grad[p]]
    /\ calls' = Append(calls, Call("zero_grad"))
    /\ pc' = After(TransferBody, "zero_grad", "for_epoch")
    /\ UNCHANGED <<run, configVars, showVars, datasetVars, vggVars, loaderVars, lossVars,
                   n_samples, epoch, n_iters, yielded, batch, model_params,
                   model_grad, training, train_calls, map_image_pred_batch,
                   loss, writer, printed, opt_step_count, env, storage,
                   leaf_requires_grad, opt_params, x_clamp,
                   input_image_features, content_loss, style_loss,
                   total_loss, previews, displayed>>

\* total_loss.backward(): adds the gradient of total_loss to the .grad of
\* every tensor with requires_grad it depends on: the image, some value the
\* clamp lets through, and the parameters of vgg16.
TransferBackward ==
    /\ run = "transfer" /\ pc = "backward"
    /\ \E g \in -MaxGrad..MaxGrad :
          /\ clamp_passes(storage[env.input_image]) \/ g = 0
          /\ grad' = [p \in DOMAIN grad |->
                IF p \notin leaf_requires_grad THEN grad[p]
                ELSE IF p = env.input_image
                     THEN accumulate(grad[p], [epoch |-> total_loss.epoch, val |-> g])
                     ELSE accumulate(grad[p], [epoch |-> total_loss.epoch])]
    /\ calls' = Append(calls, Call("backward"))
    /\ pc' = After(TransferBody, "backward", "for_epoch")
    /\ UNCHANGED <<run, configVars, showVars, datasetVars, vggVars, loaderVars, lossVars,
                   n_samples, epoch, n_iters, yielded, batch, model_params,
                   model_grad, training, train_calls, map_image_pred_batch,
                   loss, writer, printed, opt_step_count, env, storage,
                   leaf_requires_grad, opt_params, x_clamp,
                   input_image_features, content_loss, style_loss,
                   total_loss, previews, displayed>>

\* opt.step()
TransferStep ==
    /\ run = "transfer" /\ pc = "step"
    /\ storage' = [p \in DOMAIN storage |->
                     IF p \in Range(opt_params)
                     THEN sgd_update(storage[p], grad[p])
                     ELSE storage[p]]
    /\ opt_step_count' = opt_step_count + 1
    /\ calls' = Append(calls, [call |-> "step",
                               grad |-> [k \in DOMAIN opt_params |-> grad[opt_params[k]]]])
    /\ pc' = After(TransferBody, "step", "for_epoch")
    /\ UNCHANGED <<run, configVars, showVars, datasetVars, vggVars, loaderVars, lossVars,
                   n_samples, epoch, n_iters, yielded, batch, model_params,
                   model_grad, training, train_calls, map_image_pred_batch,
                   loss, writer, printed, env, grad, leaf_requires_grad,
                   opt_params, x_clamp, input_image_features, content_loss,
                   style_loss, total_loss, previews, displayed>>

\* imshow(input_image, title='Result')
ShowResult ==
    /\ run = "transfer" /\ pc = "result"
    /\ displayed' = [title |-> "Result", image |-> storage[env.input_image]]
    /\ pc' = "done"
    /\ UNCHANGED <<run, configVars, showVars, datasetVars, vggVars, loaderVars, lossVars,
                   trainVars, env, storage, grad, leaf_requires_grad,
                   opt_params, x_clamp, input_image_features, content_loss,
                   style_loss, total_loss, previews>>

(***************************************************************************)
(* Run "imshow": a pixel of an image file goes through the dataset's       *)
(* transform and is given to imshow                                        *)
(***************************************************************************)
InitImshow ==
    /\ run = "imshow"
    /\ pc = "to_tensor"
    /\ byte \in 0..PixMax
    /\ channel \in 1..NumChannels
    /\ tensor = F32Zero /\ img = F32Zero /\ img_unnormalized = F32Zero
    /\ ConfigCell
    /\ DatasetIdle /\ VggIdle /\ LoaderIdle /\ LossIdle /\ TrainIdle
    /\ TransferIdle

\* transforms.ToTensor()
ToTensorPixel ==
    /\ run = "imshow" /\ pc = "to_tensor"
    /\ tensor' = ToTensor_pixel(byte)
    /\ pc' = "normalize"
    /\ UNCHANGED <<run, configVars, datasetVars, vggVars, loaderVars,
                   lossVars, trainVars, transferVars, byte, channel, img,
                   img_unnormalized>>

\* transforms.Normalize(mean=[0.5, 0.5, 0.5], std=[0.5, 0.5, 0.5])
NormalizePixel ==
    /\ run = "imshow" /\ pc = "normalize"
    /\ img' = Normalize_pixel(tensor, channel)
    /\ pc' = "imshow"
    /\ UNCHANGED <<run, configVars, datasetVars, vggVars, loaderVars,
                   lossVars, trainVars, transferVars, byte, channel, tensor,
                   img_unnormalized>>

\* imshow(img): img = img / 2 + 0.5  # unnormalize to [0, 1]
Imshow ==
    /\ run = "imshow" /\ pc = "imshow"
    /\ img_unnormalized' = unnormalize(img)
    /\ pc' = "shown"
    /\ UNCHANGED <<run, configVars, datasetVars, vggVars, loaderVars,
                   lossVars, trainVars, transferVars, byte, channel, tensor,
                   img>>

Init ==
    \/ InitImshow
    \/ InitDataset \/ InitVgg \/ InitLoader \/ InitStyleLoss \/ InitTrain
    \/ InitTransfer

DatasetNext == GetItem

VggNext ==
    \/ AddSlice1 \/ AddSlice2 \/ AddSlice3 \/ AddSlice4 \/ Freeze \/ Forward

LoaderNext == LoadStyle \/ LoadContent \/ AssertSameSize

StyleLossNext == CallGramMatrix \/ CallStyleLoss

TrainNext ==
    \/ ForEpoch \/ ModelTrain \/ ResetIters \/ ForBatch \/ Unpack
    \/ TrainForward \/ Criterion \/ TrainZeroGrad \/ TrainBackward
    \/ TrainStep \/ AddScalar \/ AddImage \/ IncrIters \/ PrintEpoch

TransferNext ==
    \/ CloneContent \/ RequiresGrad \/ ImageFeatures \/ MakeOpt
    \/ TransferForEpoch \/ Preview \/ Clamp \/ TransferForward
    \/ ContentLoss \/ StyleLossMean \/ TotalLoss \/ TransferZeroGrad
    \/ TransferBackward \/ TransferStep \/ ShowResult

ImshowNext == ToTensorPixel \/ NormalizePixel \/ Imshow

Next ==
    \/ ImshowNext
    \/ DatasetNext \/ VggNext \/ LoaderNext \/ StyleLossNext
    \/ TrainNext \/ TransferNext

Spec == Init /\ [][Next]_vars

\* The runs one by one.
DatasetSpec == InitDataset /\ [][DatasetNext]_vars
VggSpec == InitVgg /\ [][VggNext]_vars
LoaderSpec == InitLoader /\ [][LoaderNext]_vars
StyleLossSpec == InitStyleLoss /\ [][StyleLossNext]_vars
TrainSpec == InitTrain /\ [][TrainNext]_vars
TransferSpec == InitTransfer /\ [][TransferNext]_vars
ImshowSpec == InitImshow /\ [][ImshowNext]_vars

\* The cells run on: a statement that can be executed is executed.
FairTransferSpec == TransferSpec /\ WF_vars(TransferNext)

\* The two gradient-descent loops.
LoopsInit == InitTrain \/ InitTransfer
LoopsNext == TrainNext \/ TransferNext
LoopsSpec == LoopsInit /\ [][LoopsNext]_vars

\* A notebook cell is run by one thread, statement after statement: a
\* statement that can be executed is executed.
FairTrainSpec == TrainSpec /\ WF_vars(TrainNext)

(***************************************************************************)
(* Properties                                                              *)
(***************************************************************************)

\* Two tensors of rank 3 side by side along the width.
CatWidth(a, b) ==
    [c \in DOMAIN a |-> [r \in DOMAIN a[c] |-> a[c][r] \o b[c][r]]]

\* The sample train_dataset[index] was cut from.
ItemSample == transform(LoadedImage(samples[item.index]))

\* C1: __getitem__ returns (photo_image, map_image), the two halves of the
\* transformed sample of shape (3, H, W) along the width: both have shape
\* (3, H, W/2), photo_image is columns 0..W/2-1 and map_image columns
\* W/2..W-1 (no column is in both), and their concatenation along the
\* width is the transformed sample.
C1_GetItemHalves ==
    (run = "getitem" /\ pc = "returned") =>
        LET sample == ItemSample
            H == Shape3(sample)[2]
            W == Shape3(sample)[3]
            photo_image == item.pair[1]
            map_image == item.pair[2]
        IN  /\ Len(item.pair) = 2
            /\ Shape3(sample)[1] = 3
            /\ 2 * (W \div 2) = W
            /\ Shape3(photo_image) = <<3, H, W \div 2>>
            /\ Shape3(map_image) = <<3, H, W \div 2>>
            /\ \A c \in 1..3, r \in 1..H, k \in 1..(W \div 2) :
                  /\ photo_image[c][r][k] = sample[c][r][k]
                  /\ map_image[c][r][k] = sample[c][r][(W \div 2) + k]
            /\ CatWidth(photo_image, map_image) = sample

C1_Witness ==
    /\ run = "getitem" /\ pc = "returned"
    /\ item.index = 2
    /\ Shape3(item.pair[1]) = <<3, 2, 2>>
    /\ item.pair[1] # item.pair[2]

\* Vgg16.__init__ has run through its four loops.
VggBuilt == run = "vgg" /\ pc \in {"freeze", "built", "forwarded"}

\* The Python range [lo, hi) as a sequence.
PyRange(lo, hi) == [i \in 1..(hi - lo) |-> lo + i - 1]

\* C2: slice1..slice4 hold the layer indices [0,4), [4,9), [9,16), [16,23):
\* every index 0..22 is in exactly one slice, the slices are contiguous and
\* increasing, and the last layer of each slice (3, 8, 15, 22) is a ReLU
\* directly followed by a MaxPool2d in the VGG-16 feature stack.
C2_SlicesPartition ==
    VggBuilt =>
        /\ slice1 = PyRange(0, 4)
        /\ slice2 = PyRange(4, 9)
        /\ slice3 = PyRange(9, 16)
        /\ slice4 = PyRange(16, 23)
        /\ slice1 \o slice2 \o slice3 \o slice4 = PyRange(0, 23)
        /\ \A i \in 0..22 :
              Cardinality({s \in {slice1, slice2, slice3, slice4} :
                              i \in Range(s)}) = 1
        /\ \A s \in {slice1, slice2, slice3, slice4} :
              /\ s[Len(s)] \in {3, 8, 15, 22}
              /\ LayerKind(s[Len(s)]) = "ReLU"
              /\ LayerKind(s[Len(s)] + 1) = "MaxPool2d"

C2_Witness ==
    /\ VggBuilt
    /\ Len(slice4) = 7
    /\ x = 23

\* Layers lo..hi of the feature stack applied to v, in order.
RECURSIVE RunLayers(_, _, _)
RunLayers(lo, hi, v) ==
    IF lo > hi THEN v ELSE RunLayers(lo + 1, hi, LayerApply(lo, v))

\* C3: forward returns a dictionary with exactly the keys relu1_2, relu2_2,
\* relu3_3, relu4_3; the value of the k-th key is slice k applied to the
\* output of slice k-1 (slice 1 to the input), which is layers 0..3, 0..8,
\* 0..15 and 0..22 of the feature stack applied to the input.
C3_ForwardFeatures ==
    (run = "vgg" /\ pc = "forwarded") =>
        LET f == out.features
            v == out.input
        IN  /\ DOMAIN f = {"relu1_2", "relu2_2", "relu3_3", "relu4_3"}
            /\ f.relu1_2 = SequentialApply(slice1, v)
            /\ f.relu2_2 = SequentialApply(slice2, f.relu1_2)
            /\ f.relu3_3 = SequentialApply(slice3, f.relu2_2)
            /\ f.relu4_3 = SequentialApply(slice4, f.relu3_3)
            /\ f.relu1_2 = RunLayers(0, 3, v)
            /\ f.relu2_2 = RunLayers(0, 8, v)
            /\ f.relu3_3 = RunLayers(0, 15, v)
            /\ f.relu4_3 = RunLayers(0, 22, v)

C3_Witness ==
    /\ run = "vgg" /\ pc = "forwarded"
    /\ out.input = 2
    /\ Cardinality({out.features.relu1_2, out.features.relu2_2,
                    out.features.relu3_3, out.features.relu4_3}) = 4

\* Inner product of channels i and j of sample n over all positions.
ChannelProduct(f, n, i, j) ==
    SumSeq([y \in DOMAIN f[n][i] |->
        SumSeq([k \in DOMAIN f[n][i][y] |-> f[n][i][y][k] * f[n][j][y][k]])])

\* Sum over all samples and channel pairs of the squared difference of the
\* channel products of two feature maps.
GramSquaredError(p, t) ==
    SumSeq([n \in DOMAIN p |->
        SumSeq([i \in DOMAIN p[n] |->
            SumSeq([j \in DOMAIN p[n] |->
                (ChannelProduct(p, n, i, j) - ChannelProduct(t, n, i, j))
              * (ChannelProduct(p, n, i, j) - ChannelProduct(t, n, i, j))])])])

\* C5: StyleLoss.forward returns the mean-squared error between the Gram
\* matrices of pred_features and target_features (shape (b, c, h, w) both);
\* the loss is non-negative, zero when the two are equal, and the same with
\* the arguments swapped.
C5_StyleLossMse ==
    (run = "styleloss" /\ pc = "loss") =>
        LET size == Size4(pred_features)
            chw == size[2] * size[3] * size[4]
        IN  /\ Size4(target_features) = size
            /\ style_loss_value.num = GramSquaredError(pred_features, target_features)
            /\ style_loss_value.den = chw * chw * size[1] * size[2] * size[2]
            /\ style_loss_value.num >= 0
            /\ style_loss_value.den > 0
            /\ (pred_features = target_features => style_loss_value.num = 0)
            /\ StyleLoss_forward(target_features, pred_features) = style_loss_value

C5_Witness ==
    /\ run = "styleloss" /\ pc = "loss"
    /\ Size4(pred_features) = <<2, 2, 2, 2>>
    /\ pred_features # target_features
    /\ style_loss_value.num > 0

\* C6: gram_matrix flattens (b, c, h, w) to (b, c, h*w) and returns a
\* (b, c, c) tensor whose entry [n, i, j] is the inner product of channels
\* i and j of sample n over all h*w positions divided by c*h*w; the result
\* is symmetric in i and j.
C6_GramMatrix ==
    (run = "styleloss" /\ pc \in {"gram", "loss"}) =>
        LET size == Size4(pred_features)
            b == size[1]
            c == size[2]
            h == size[3]
            w == size[4]
        IN  /\ Size3(view(pred_features, b, c, w * h)) = <<b, c, h * w>>
            /\ Size3(gram.num) = <<b, c, c>>
            /\ gram.den = c * h * w
            /\ \A n \in 1..b, i \in 1..c, j \in 1..c :
                  /\ gram.num[n][i][j] = ChannelProduct(pred_features, n, i, j)
                  /\ gram.num[n][i][j] = gram.num[n][j][i]

C6_Witness ==
    /\ run = "styleloss" /\ pc = "gram"
    /\ Size4(pred_features) = <<2, 2, 2, 2>>
    /\ gram.num[2][1][2] # 0
    /\ gram.num[2][1][1] # gram.num[2][2][2]

\* Both images have been loaded.
BothLoaded == run = "loader" /\ pc \in {"assert", "loaded", "AssertionError"}

InTransferLoop ==
    /\ run = "transfer"
    /\ pc \in Range(TransferBody) \cup {"for_epoch", "result"}

\* C4: in the style-transfer loop nothing but input_image is changed: the
\* VGG-16 parameters, the normalization mean and std, content_image,
\* style_image and the two precomputed feature tensors keep their values
\* over every statement (opt.step() included), and input_image is an object
\* of its own, not content_image.
C4_OnlyInputImageChanges ==
    [][InTransferLoop =>
          /\ env' = env
          /\ DOMAIN storage' = DOMAIN storage
          /\ env.input_image # env.content_image
          /\ \A n \in DOMAIN env :
                n # "input_image" => storage'[env[n]] = storage[env[n]]
          /\ \A p \in DOMAIN storage :
                p # env.input_image => storage'[p] = storage[p]]_vars

C4_Witness ==
    /\ run = "transfer" /\ pc = "done"
    /\ opt_step_count = n_epochs_transfer
    /\ storage[env.input_image] # storage[env.content_image]
    /\ storage[env.content_image] = 1

\* The calls of one iteration of the train loop up to and including
\* opt.step(), for the loss l.
TrainCallsOf(l) ==
    <<Call("unpack"), Call("forward"), Call("criterion"), Call("zero_grad"),
      Call("backward"),
      [call |-> "step", grad |-> [defined |-> TRUE, from |-> {l}]]>>

\* The loss of the current batch computed from the weights as they were
\* before this iteration's update.
LossBeforeUpdate ==
    [pred |-> [params |-> opt_step_count - 1, batch |-> batch],
     target |-> batch]

\* C9: in both loops an iteration calls opt.zero_grad(), backward() and
\* opt.step() in this order, once each, after its forward pass and loss; the
\* gradient opt.step() uses comes from the loss of this iteration alone, and
\* the loss logged is the one computed before this iteration's update.
C9_OptimizerOrder ==
    /\ (run = "train" /\ pc \in {"add_scalar", "add_image", "incr"}) =>
          /\ SubSeq(calls, 1, 6) = TrainCallsOf(LossBeforeUpdate)
          /\ loss = LossBeforeUpdate
          /\ batch = [epoch |-> epoch, index |-> n_iters]
          /\ model_params = opt_step_count
    /\ (run = "train" /\ pc \in {"add_image", "incr"}) =>
          /\ Len(calls) = 7
          /\ writer # <<>>
          /\ \E k \in DOMAIN writer :
                /\ writer[k].tag = "train/loss"
                /\ writer[k].value = LossBeforeUpdate
                /\ \A j \in (k + 1)..Len(writer) : writer[j].tag # "train/loss"
    /\ (run = "transfer" /\ pc = "for_epoch" /\ epoch >= 0) =>
          /\ Len(calls) = 8
          /\ SubSeq(calls, 1, 7) =
                <<Call("clamp"), Call("forward"), Call("content_loss"),
                  Call("style_loss"), Call("total_loss"), Call("zero_grad"),
                  Call("backward")>>
          /\ calls[8].call = "step"
          /\ \E g \in -MaxGrad..MaxGrad :
                calls[8].grad =
                   <<[defined |-> TRUE,
                      from |-> {[epoch |-> epoch, val |-> g]}]>>
          /\ total_loss.epoch = epoch
          /\ opt_step_count = epoch + 1

C9_Witness ==
    /\ run = "train" /\ pc = "incr"
    /\ epoch = 1 /\ n_iters = 2
    /\ opt_step_count = 6

\* ceil(n / 4), the number of batches of 4 of n samples
NumBatches(n) == CHOOSE k \in 0..n : 4 * (k - 1) < n /\ n <= 4 * k

C10_Counts ==
    run = "train" =>
        /\ printed = PyRange(0, IF pc \in {"for_epoch", "done"}
                                THEN epoch + 1 ELSE epoch)
        /\ (pc \notin {"for_epoch", "model.train", "done"}) =>
              (training /\ train_calls = epoch + 1)
        /\ (pc = "for_batch") =>
              /\ n_iters = yielded
              /\ opt_step_count = epoch * NumBatches(n_samples) + n_iters
        /\ (pc = "for_batch" /\ yielded = 0) => n_iters = 0
        /\ (pc = "done") =>
              /\ opt_step_count = 25 * NumBatches(n_samples)
              /\ train_calls = 25
              /\ printed = PyRange(0, 25)

C10_PrintAfterBatches ==
    [][(run = "train" /\ printed' # printed) =>
          /\ printed' = Append(printed, epoch)
          /\ yielded = NumBatches(n_samples)
          /\ n_iters = NumBatches(n_samples)
          /\ opt_step_count = (epoch + 1) * NumBatches(n_samples)]_vars

\* C10: the train loop terminates; it makes n_epochs * len(train_dataloader)
\* optimizer steps (25 epochs, one step per batch), calls model.train() and
\* resets n_iters to 0 at the start of every epoch, and prints "Epoch k
\* done." once for each k = 0..24 in increasing order, each after all the
\* batches of epoch k.
C10_TrainTerminates ==
    /\ []C10_Counts
    /\ C10_PrintAfterBatches
    /\ (run = "train") ~> (run = "train" /\ pc = "done")

C10_Witness ==
    /\ run = "train" /\ pc = "done"
    /\ n_samples = 9
    /\ opt_step_count = 75
    /\ Len(printed) = 25

(***************************************************************************)
(* The TensorBoard log of the train loop                                   *)
(***************************************************************************)
IsScalar(entry) == entry.tag = "train/loss"

ImageTags == <<"train/photo_image", "train/map_image_pred",
               "train/map_image_gt">>

Scalars == SelectSeq(writer, IsScalar)

\* C11: the global_step of the writer is unique per training iteration and
\* grows by exactly 1 from one iteration to the next, also across epoch
\* boundaries: the k-th "train/loss" scalar (k = 1, 2, ...) has step k - 1,
\* so the first has step 0 and no two scalars share a step; before every
\* iteration the step about to be used is the number of optimizer steps
\* already made.
C11_GlobalStep ==
    (run = "train") =>
        LET scalars == Scalars
        IN  /\ \A k \in 1..Len(scalars) : scalars[k].step = k - 1
            /\ \A k \in 2..Len(scalars) :
                  scalars[k].step = scalars[k - 1].step + 1
            /\ (pc \in {"unpack", "forward", "criterion", "zero_grad",
                        "backward", "step"}) =>
                  /\ global_step(epoch, n_samples, n_iters) = opt_step_count
                  /\ Len(scalars) = opt_step_count
            /\ (pc \in {"add_image", "incr"}) =>
                  /\ Len(scalars) = opt_step_count
                  /\ scalars[Len(scalars)].step = opt_step_count - 1
                  /\ global_step(epoch, n_samples, n_iters)
                        = opt_step_count - 1

C11_Witness ==
    /\ run = "train" /\ pc = "add_image"
    /\ n_samples = 9 /\ epoch = 1 /\ n_iters = 0
    /\ Len(Scalars) = 4
    /\ Scalars[4].step = 3

Multiple50(i) == (i \div 50) * 50 = i

\* The entry at index k of the writer is a scalar or the end of the log.
ScalarOrEnd(k) == k > Len(writer) \/ IsScalar(writer[k])

\* The entry at index k is the i-th image of the iteration whose scalar is
\* i entries before it.
ImageOf(k, i) ==
    /\ k - i >= 1
    /\ IsScalar(writer[k - i])
    /\ writer[k].tag = ImageTags[i]
    /\ writer[k].step = writer[k - i].step

C12_LogEntries ==
    (run = "train") =>
        LET len == NumBatches(n_samples)
            logs(k) == Multiple50(writer[k].step % len)
        IN  /\ (pc \in {"add_image", "incr"}) =>
                  Len(Scalars) = opt_step_count
            /\ \A k \in 1..Len(writer) :
                  IF IsScalar(writer[k])
                  THEN IF logs(k)
                       THEN \/ /\ \A i \in 1..3 :
                                    /\ k + i <= Len(writer)
                                    /\ ImageOf(k + i, i)
                               /\ ScalarOrEnd(k + 4)
                            \/ k = Len(writer) /\ pc = "add_image"
                       ELSE ScalarOrEnd(k + 1)
                  ELSE \E i \in 1..3 : ImageOf(k, i) /\ logs(k - i)

C12_ImagesTogether ==
    [][(run = "train" /\ pc = "add_image") =>
          IF Multiple50(n_iters)
          THEN /\ Len(writer') = Len(writer) + 3
               /\ IsScalar(writer[Len(writer)])
               /\ \A i \in 1..3 :
                     /\ writer'[Len(writer) + i].tag = ImageTags[i]
                     /\ writer'[Len(writer) + i].step =
                           writer[Len(writer)].step
          ELSE writer' = writer]_vars

\* C12: the loss scalar is logged on every iteration (one scalar per
\* optimizer step); the three images train/photo_image,
\* train/map_image_pred and train/map_image_gt are logged exactly on the
\* iterations whose n_iters is a multiple of 50, hence on the first batch
\* of every epoch, all three together and with the step of the scalar of
\* that iteration.
C12_ImageLogging ==
    /\ []C12_LogEntries
    /\ C12_ImagesTogether

C12_Witness ==
    /\ run = "train" /\ pc = "incr"
    /\ epoch = 1 /\ n_iters = 50
    /\ Len(writer) >= 3
    /\ writer[Len(writer)].tag = "train/map_image_gt"
    /\ writer[Len(writer)].step = NumBatches(n_samples) + 50
    /\ writer[Len(writer) - 3].tag = "train/loss"
    /\ writer[Len(writer) - 3].step = NumBatches(n_samples) + 50

(***************************************************************************)
(* The clamped image of the style-transfer loop                            *)
(***************************************************************************)
\* c is the value v brought into [0.0, 1.0].
ClampedTo(v, c) ==
    /\ c \in 0..PixelOne
    /\ (v \in 0..PixelOne) => c = v
    /\ (v < 0) => c = 0
    /\ (v > PixelOne) => c = PixelOne

C13_NetworkInput ==
    [][(run = "transfer" /\ pc = "forward") =>
          /\ input_image_features'.image \in 0..PixelOne
          /\ ClampedTo(storage[env.input_image],
                       input_image_features'.image)
          /\ storage' = storage]_vars

C13_ClampKeepsImage ==
    [][(run = "transfer" /\ pc = "clamp") =>
          /\ ClampedTo(storage[env.input_image], x_clamp')
          /\ storage' = storage /\ env' = env]_vars

C13_PreviewInRange ==
    [][(run = "transfer" /\ pc = "preview" /\ displayed' # displayed) =>
          /\ displayed'.title = "Input Image"
          /\ ClampedTo(storage[env.input_image], displayed'.image)
          /\ storage' = storage /\ env' = env]_vars

\* C13: at every epoch of the style-transfer loop the image given to the
\* normalizer and vgg16 is input_image clamped to [0.0, 1.0], so the network
\* sees pixel values in [0, 1] whatever input_image has become; the previews
\* inside the loop show clamped values too; input_image keeps its own
\* values: clamping never writes to it.
C13_ClampedInput ==
    /\ C13_NetworkInput
    /\ C13_ClampKeepsImage
    /\ C13_PreviewInRange
    /\ [][(run = "transfer" /\ storage' # storage /\ InTransferLoop) =>
            pc = "step"]_vars

C13_Witness ==
    /\ run = "transfer" /\ pc = "content_loss"
    /\ storage[env.input_image] = PixelOne + 1
    /\ input_image_features.image = PixelOne
    /\ x_clamp = PixelOne

(***************************************************************************)
(* The means of the per-layer losses                                       *)
(***************************************************************************)
\* l is the mean over the layers: one term per layer, in order, divided by
\* the number of layers.
MeanOver(l, layers) ==
    /\ l.divided_by = Len(layers)
    /\ DOMAIN l.terms = DOMAIN layers
    /\ \A k \in DOMAIN layers : l.terms[k].layer = layers[k]
    /\ Len(layers) > 0

VggKeys == DOMAIN forward(<<>>, <<>>, <<>>, <<>>, 0)

SomeListEmpty == content_loss_layers = <<>> \/ style_loss_layers = <<>>

C16_Means ==
    (run = "transfer") =>
        /\ Range(content_loss_layers_cell) \subseteq VggKeys
        /\ Range(style_loss_layers_cell) \subseteq VggKeys
        /\ Range(content_loss_layers) \subseteq VggKeys
        /\ Range(style_loss_layers) \subseteq VggKeys
        /\ (content_loss # None) =>
              MeanOver(content_loss, content_loss_layers)
        /\ (style_loss # None) => MeanOver(style_loss, style_loss_layers)
        /\ (pc = "total_loss") =>
              /\ MeanOver(content_loss, content_loss_layers)
              /\ MeanOver(style_loss, style_loss_layers)
              /\ \A k \in DOMAIN content_loss.terms :
                    content_loss.terms[k].pred = input_image_features
              /\ \A k \in DOMAIN style_loss.terms :
                    style_loss.terms[k].pred = input_image_features

C16_NoStepAfterError ==
    (run = "transfer" /\ SomeListEmpty) =>
        /\ opt_step_count = 0
        /\ epoch \in {-1, 0}
        /\ pc \notin {"total_loss", "zero_grad", "backward", "step",
                      "result", "done"}
        /\ ("input_image" \in DOMAIN env) =>
              storage[env.input_image] = storage[env.content_image]
        /\ (pc = "ZeroDivisionError") => epoch = 0

ContentDivisionByZero ==
    run = "transfer" /\ pc = "content_loss" /\ content_loss_layers = <<>>

StyleDivisionByZero ==
    run = "transfer" /\ pc = "style_loss" /\ style_loss_layers = <<>>

DivisionFails ==
    /\ ContentDivisionByZero =>
          (pc' = "ZeroDivisionError" /\ storage' = storage)
    /\ StyleDivisionByZero =>
          (pc' = "ZeroDivisionError" /\ storage' = storage)
    /\ pc # "ZeroDivisionError"

C16_DivisionFails == [][DivisionFails]_vars

\* C16: content_loss and style_loss are the means of the per-layer losses
\* over content_loss_layers and style_loss_layers, whose names are all keys
\* of the dictionary Vgg16.forward returns; with an empty list the division
\* by len(...) fails with a ZeroDivisionError in the first epoch, before
\* any opt.step(), input_image is unchanged, and nothing runs after the
\* error.
C16_LossMeans ==
    /\ []C16_Means
    /\ []C16_NoStepAfterError
    /\ C16_DivisionFails
    /\ (run = "transfer" /\ SomeListEmpty)
          ~> (pc = "ZeroDivisionError" /\ epoch = 0 /\ opt_step_count = 0)

C16_Witness ==
    /\ run = "transfer" /\ pc = "ZeroDivisionError"
    /\ content_loss_layers = content_loss_layers_cell
    /\ style_loss_layers = <<>>
    /\ MeanOver(content_loss, content_loss_layers)
    /\ opt_step_count = 0
    /\ storage[env.input_image] = storage[env.content_image]

(***************************************************************************)
(* The previews of the style-transfer loop                                 *)
(***************************************************************************)
Multiple10(e) == (e \div 10) * 10 = e

C14_Previews ==
    (run = "transfer") =>
        /\ opt_step_count <= 200
        /\ \A k \in 1..Len(previews) : previews[k] = 10 * (k - 1)
        /\ Len(previews) <= 20
        /\ (pc = "done") =>
              /\ opt_step_count = 200
              /\ Len(previews) = 20
              /\ previews[20] = 190
              /\ displayed = [title |-> "Result",
                              image |-> storage[env.input_image]]
        /\ (displayed # None /\ displayed.title = "Result") => pc = "done"

C14_PreviewBeforeUpdate ==
    [][(run = "transfer" /\ pc = "preview") =>
          IF Multiple10(epoch)
          THEN /\ previews' = Append(previews, epoch)
               /\ opt_step_count = epoch
               /\ displayed'.title = "Input Image"
               /\ ClampedTo(storage[env.input_image], displayed'.image)
               /\ (epoch = 0) =>
                     displayed'.image = storage[env.content_image]
               /\ storage' = storage
          ELSE previews' = previews /\ displayed' = displayed]_vars

C14_ShownOnlyThen ==
    [][(run = "transfer" /\ InTransferLoop /\ displayed' # displayed) =>
          \/ pc = "preview" /\ opt_step_count < 200
          \/ pc = "result" /\ opt_step_count = 200]_vars

\* C14: with the lists of layers of the cell the style-transfer loop ends
\* after exactly 200 optimizer steps; a preview is shown exactly at the
\* epochs 0, 10, ..., 190 (20 previews), each before the update of its
\* epoch, so the preview of epoch e shows the image after e updates and
\* the first one the starting image; the image after the 200th update is
\* shown by the final 'Result' display only.
C14_TransferTerminates ==
    /\ []C14_Previews
    /\ C14_PreviewBeforeUpdate
    /\ C14_ShownOnlyThen
    /\ (run = "transfer" /\ ~SomeListEmpty)
          ~> (pc = "done" /\ opt_step_count = 200)

C14_Witness ==
    /\ run = "transfer" /\ pc = "done"
    /\ ConfigCell /\ ShowIdle
    /\ opt_step_count = 200
    /\ Len(previews) = 20
    /\ displayed.title = "Result"
    /\ displayed.image # storage[env.content_image]

(***************************************************************************)
(* Normalize and imshow's un-normalization                                 *)
(***************************************************************************)
\* The float32 a in units of 2^-31, for a below 1/4.
Units31(a) == IF a.m = 0 THEN 0 ELSE a.m * 2^(a.e + 31)

BelowQuarter(a) == ~F32Leq(F32Round(1, 0 - 2), a)

\* Un-normalizing the normalized pixel gives the very float32 the pixel
\* had after ToTensor.
C15_ExactInverse ==
    (run = "imshow" /\ pc = "shown") => img_unnormalized = tensor

\* C15: Normalize(mean=0.5, std=0.5) maps a pixel value v of [0, 1] into
\* [-1, 1] and imshow's img / 2 + 0.5 maps it back into [0, 1], to v itself
\* when v = 0 or v >= 1/4 and to within 2^-26 of v otherwise (the float32
\* subtraction v - 0.5 rounds for small v), for every channel.
C15_InverseUpToRounding ==
    (run = "imshow") =>
        /\ (pc \in {"normalize", "imshow", "shown"}) =>
              F32Leq(F32Zero, tensor) /\ F32Leq(tensor, F32(1))
        /\ (pc \in {"imshow", "shown"}) =>
              F32Leq(F32(0 - 1), img) /\ F32Leq(img, F32(1))
        /\ (pc = "shown") =>
              /\ F32Leq(F32Zero, img_unnormalized)
              /\ F32Leq(img_unnormalized, F32(1))
              /\ IF BelowQuarter(tensor)
                 THEN /\ BelowQuarter(img_unnormalized)
                      /\ Abs(Units31(img_unnormalized) - Units31(tensor))
                            <= 2^5
                 ELSE img_unnormalized = tensor
              /\ (byte = 0) => img_unnormalized = tensor

C15_Witness ==
    /\ run = "imshow" /\ pc = "shown"
    /\ byte = 1 /\ channel = 3
    /\ BelowQuarter(tensor)
    /\ img_unnormalized # tensor
    /\ Abs(Units31(img_unnormalized) - Units31(tensor)) <= 2^5

====
